---- MODULE Spec2Model ----
(***************************************************************************)
(* MPPT / voltage-targeting buck converter sketches (Atverter boards).     *)
(*                                                                         *)
(* The repository holds several Arduino sketches, each one program with a  *)
(* setup() and a timer callback controlUpdate():                           *)
(*   "IC"     IC-only averaging MPPT      (MPPT_wider_ranges_AVG_no_PID)   *)
(*   "PIIC"   PI + IC averaging           (unnamed/part_001)               *)
(*   "PI"     PI-only voltage targeting   (third sketch of the .cpp file)  *)
(*   "H"      AtverterH IC MPPT           (unnamed/part_002)               *)
(*   "LEGACY" legacy PI + IC              (PID_MPPT_wider_ranges.old)      *)
(*   "CAL"    sensor calibration tool     (second sketch of the .cpp file) *)
(* A behaviour of the model is a run of ONE sketch: Init picks the sketch  *)
(* (variant) and its compile-time configuration, and every later step is   *)
(* a step of setup() or one whole call of that sketch's controlUpdate().   *)
(*                                                                         *)
(* Arithmetic.  Integers keep the width of their C type on the AVR target  *)
(* (int = 16 bits, uint16_t, int32_t).  A double is modelled by its value  *)
(* in real arithmetic together with a bound on the rounding error of the   *)
(* binary format (IEEE infinities and NaN included where a division by     *)
(* zero can produce them): where the rounding decides an outcome, every    *)
(* outcome a build can produce is a step of the model.                     *)
(***************************************************************************)
EXTENDS Integers, Sequences, FiniteSets

(***************************************************************************)
(* Integer helpers                                                         *)
(***************************************************************************)
Abs(a) == IF a < 0 THEN -a ELSE a

\* C integer division: truncation toward zero (b # 0).
Quot(a, b) ==
  IF (a >= 0) = (b > 0) \/ a = 0
    THEN Abs(a) \div Abs(b)
    ELSE -(Abs(a) \div Abs(b))

\* Value of a uint16_t after an assignment of the integer a.
U16(a) == a % 65536

\* Value of a 16-bit int (AVR `int`, int16_t) after two's-complement wrap.
I16(a) == ((a + 32768) % 65536) - 32768

\* Faulty variant of constrain: the clamp left out.
constrainOff(amt, low, high) == amt

\* Arduino constrain(amt, low, high).
constrain(amt, low, high) ==
  IF amt < low THEN low ELSE IF amt > high THEN high ELSE amt

RECURSIVE GCD(_, _)
GCD(a, b) == IF b = 0 THEN a ELSE GCD(b, a % b)

(***************************************************************************)
(* double values.  A `double` has a 24-bit significand on the AVR target   *)
(* (where double is float) and a 53-bit one on other builds, and every     *)
(* literal, quotient, product and sum is rounded to the nearest value of   *)
(* the format.  A value of the model is [k, n, d, e]: for k = "fin", n/d   *)
(* (d > 0, lowest terms) is the result in real arithmetic and the double   *)
(* the program holds differs from n/d by at most e / 2^24; e = 0 says the  *)
(* double is exactly n/d in every build.  +inf, -inf and NaN are the       *)
(* other kinds.  Whatever depends on the double itself (a comparison, a    *)
(* truncation) has as outcomes those of every value within the bound.      *)
(***************************************************************************)
Fin(n, d, e) ==
  LET s == IF d < 0 THEN -1 ELSE 1
      g == GCD(Abs(n), Abs(d))
  IN  [k |-> "fin", n |-> (s * n) \div g, d |-> (s * d) \div g, e |-> e]

PInf == [k |-> "pinf", n |-> 1, d |-> 0, e |-> 0]
NInf == [k |-> "ninf", n |-> -1, d |-> 0, e |-> 0]
NaN  == [k |-> "nan", n |-> 0, d |-> 0, e |-> 0]
DZero == [k |-> "fin", n |-> 0, d |-> 1, e |-> 0]

\* The least integer not below |n/d| (d > 0).
CeilAbs(n, d) == (Abs(n) + d - 1) \div d

\* n/d (lowest terms) is a value of the 24-bit format, hence of both.
Representable(n, d) == (\E i \in 0..30 : d = 2^i) /\ Abs(n) < 2^24

\* floor(e * D / 2^24) for e, D >= 0, computed in 12-bit halves so that no
\* intermediate product leaves the range of the model checker's integers.
ScaleErr(e, D) ==
  LET eh == (e % 2^24) \div 4096
      el == e % 4096
      dh == D \div 4096
      dl == D % 4096
  IN  (e \div 2^24) * D
        + eh * dh + (eh * dl + el * dh + (el * dl) \div 4096) \div 4096

\* The double an operation leaves whose result in real arithmetic is n/d
\* and whose operands carried the error prop (in 2^-24): rounding to the
\* nearest value adds at most |result| * 2^-24, and nothing when the
\* operands were exact and n/d is a value of the format.
Rounded(n, d, prop) ==
  LET x == Fin(n, d, 0)
  IN  IF prop = 0 /\ Representable(x.n, x.d)
        THEN x
        ELSE [x EXCEPT !.e = prop + CeilAbs(x.n, x.d)
                               + (IF prop > 0 THEN prop \div 2^24 + 1 ELSE 0)]

\* A floating literal such as 0.3 (= 3/10).
DLit(n, d) == Rounded(n, d, 0)

\* (double)a / b for integers a, b (IEEE: x/0 is an infinity, 0/0 is NaN).
DDiv(a, b) ==
  IF b # 0 THEN Rounded(a, b, 0)
  ELSE IF a > 0 THEN PInf ELSE IF a < 0 THEN NInf ELSE NaN

DNeg(x) ==
  CASE x.k = "fin"  -> [x EXCEPT !.n = -x.n]
    [] x.k = "pinf" -> NInf
    [] x.k = "ninf" -> PInf
    [] OTHER        -> NaN

\* x + y.  Adding an exact zero leaves the other operand as it is.
DAdd(x, y) ==
  CASE x.k = "nan" \/ y.k = "nan" -> NaN
    [] x.k = "fin" /\ y.k = "fin" ->
         IF y.n = 0 /\ y.e = 0 THEN x
         ELSE IF x.n = 0 /\ x.e = 0 THEN y
         ELSE LET g == GCD(x.d, y.d)
              IN  Rounded(x.n * (y.d \div g) + y.n * (x.d \div g),
                          (x.d \div g) * y.d, x.e + y.e)
    [] x.k = "fin"                -> y
    [] y.k = "fin"                -> x
    [] x.k = y.k                  -> x
    [] OTHER                      -> NaN

\* x * y: the error of each operand is scaled by the size of the other.
DMul(x, y) ==
  CASE x.k = "nan" \/ y.k = "nan" -> NaN
    [] x.k = "fin" /\ y.k = "fin" ->
         Rounded((x.n \div GCD(Abs(x.n), y.d)) * (y.n \div GCD(Abs(y.n), x.d)),
                 (x.d \div GCD(Abs(y.n), x.d)) * (y.d \div GCD(Abs(x.n), y.d)),
                 CeilAbs(x.n, x.d) * y.e + CeilAbs(y.n, y.d) * x.e
                   + (IF x.e > 0 /\ y.e > 0
                        THEN ScaleErr(x.e, y.e) + 1 ELSE 0))
    [] x.n = 0 \/ y.n = 0         -> NaN
    [] (x.n > 0) = (y.n > 0)      -> PInf
    [] OTHER                      -> NInf

\* (double)a for an integer a below 2^24: exact.
DInt(a) == [k |-> "fin", n |-> a, d |-> 1, e |-> 0]

\* How the doubles x and y can compare: "gt" (x > y), "lt", "eq", or "un"
\* (unordered: NaN makes every comparison false).  Two finite values whose
\* real values are no further apart than their error bounds can compare
\* either way, depending on the build's rounding.
DOrd(x, y) ==
  CASE x.k = "nan" \/ y.k = "nan" -> {"un"}
    [] x.k = "fin" /\ y.k = "fin" ->
         LET g    == GCD(x.d, y.d)
             diff == x.n * (y.d \div g) - y.n * (x.d \div g)
         IN  IF x.e + y.e > 0
                  /\ Abs(diff) <= ScaleErr(x.e + y.e, (x.d \div g) * y.d)
               THEN {"lt", "eq", "gt"}
               ELSE {IF diff > 0 THEN "gt" ELSE IF diff < 0 THEN "lt" ELSE "eq"}
    [] x.k = y.k                  -> {"eq"}
    [] x.k = "pinf" \/ y.k = "ninf" -> {"gt"}
    [] OTHER                      -> {"lt"}

\* The integers a finite double x can truncate to (toward zero): those of
\* the values within x.e / 2^24 of n/d.
DTrunc(x) ==
  LET a  == Abs(x.n)
      s  == IF x.n < 0 THEN -1 ELSE 1
      w  == ScaleErr(x.e, x.d)
      hi == (a + w) \div x.d
      lo == IF x.e = 0 THEN a \div x.d
            ELSE IF a > w THEN (a - w - 1) \div x.d
            ELSE -((w - a) \div x.d)
  IN  {s * m : m \in lo..hi}

\* Conversion double -> uint16_t.  In range it truncates toward zero.  Out of
\* range (or infinite / NaN) the conversion is undefined: the outcomes are
\* the results runtime conversions produce (saturation at either end, or
\* the low 16 bits of the truncated value).
DToU16(x) ==
  IF x.k = "fin"
    THEN UNION { IF 0 <= t /\ t <= 65535 THEN {t} ELSE {0, 65535, t % 65536} :
                 t \in DTrunc(x) }
    ELSE {0, 65535}

(***************************************************************************)
(* Program constants (#define lines and literals of the sketches)          *)
(***************************************************************************)
NUM_AVERAGES == 1000
DUTY_CYCLE_INCREMENT == 20
VOLTAGE_ERROR_RANGE == 10
CURRENT_ERROR_RANGE == 20
LOW_SIDE_MAX_VOLTAGE == 15000
DUTY_MIN == 10
DUTY_MAX == 1023
DUTY_MAX_PI == 1014
INITIAL_DUTY_IC == 512
PROTECTIVE_TARGET == 12000
DUTY_SCALE == 1024
SLOW_INTERRUPT_CALLS == 1000

(***************************************************************************)
(* Bounds of the model                                                     *)
(***************************************************************************)
\* Window size used in place of NUM_AVERAGES in the bounded runs.
ScaledAverages == 3
\* Number of complete averaging windows a bounded run may go through.
MaxWindows == 2
\* Number of calls of controlUpdate in a run of a sketch without averaging.
MaxPITicks == 3
\* Calls of the AtverterH controlUpdate between two slow blocks, in place of
\* the literal 1000 of the counter test, in the bounded runs.
ScaledSlowCalls == 2
\* Calls of controlUpdate in a run of the PI+IC sketch.
MaxPIICTicks == 4
\* Calls of controlUpdate made between the registration of the callback and
\* the setDutyCycle call of setup().
MaxSetupTicks == 3
\* Calls of controlUpdate in a run of a sketch built as the source is, with
\* NUM_AVERAGES 1000 or the slow-block literal 1000.
MaxSourceTicks == 4
\* Window closes of the IC-only sketch in a long run (after a first window
\* that holds the duty, 26 decrements take it from 512 below 0).
MaxLongWindows == 27
\* Slow blocks of the AtverterH sketch in a long run (after a first
\* block that holds the duty, 51 decrements take it from 50 below 0).
MaxSlowBlocks == 52


(***************************************************************************)
(* State                                                                   *)
(***************************************************************************)
VARIABLES
  \* compile-time configuration of the run
  variant,            \* which sketch runs
  safetyEnable,       \* #define SAFETY_ENABLE (0 in the source, 1 = compiled in)
  numAverages,        \* #define NUM_AVERAGES of the build (0: sketch has none)
  slowCalls,          \* literal of the AtverterH counter test (0: other sketch)
  \* progress of setup() and of the run
  pc,                 \* "boot" | "registered" | "assigned" | "loaded" |
                      \* "running" (setup() has called setDutyCycle)
  setupDuty,          \* setup(): the argument loaded for setDutyCycle(dutyCycle)
  setupCalls,         \* calls of controlUpdate made before setup() called setDutyCycle
  nWindows,           \* control decisions (window closes) made so far
  \* file-scope variables of the sketches
  dutyCycle, ledState, VOLTAGE_SAFETY,
  avgCount,
  avgLowCurrentSum, avgHighCurrentSum, avgLowVoltageSum, avgHighVoltageSum,
  avgLowCurrent, avgPrevLowCurrent, avgLowVoltage, avgPrevLowVoltage,
  avgHighCurrent, avgHighVoltage,
  dV, dI,
  integralControl, actualLowVoltage, actualHighVoltage, desiredLowVoltage,
  \* legacy sketch only
  actualLowCurrent, prevActualLowVoltage, prevActualLowCurrent,
  \* AtverterH sketch only
  slowInterruptCounter, lowCurrent, prevLowCurrent, lowVoltage,
  prevLowVoltage, highCurrent, highVoltage,
  gateShutdown,       \* AtverterH library: gates are shut down (latched)
  shutdownCode,       \* AtverterH library: getShutdownCode()
  hwDuty,             \* AtverterH library: getDutyCycle()
  \* observation of the last step
  path,               \* which path the last controlUpdate took
  log,                \* actuator writes, prints and divisions of the last step
  window,             \* exact sums of the samples fed, and the calls made,
                      \* since the last close (AtverterH: last slow block)
  closed              \* the window record of the last closed window

cfgVars == <<variant, safetyEnable, numAverages, slowCalls>>
avgVars == <<avgCount, avgLowCurrentSum, avgHighCurrentSum, avgLowVoltageSum,
             avgHighVoltageSum, avgLowCurrent, avgPrevLowCurrent,
             avgLowVoltage, avgPrevLowVoltage, avgHighCurrent, avgHighVoltage>>
icVars  == <<dV, dI>>
piVars  == <<integralControl, actualLowVoltage, actualHighVoltage,
             desiredLowVoltage>>
legacyVars == <<actualLowCurrent, prevActualLowVoltage, prevActualLowCurrent>>
hVars   == <<slowInterruptCounter, lowCurrent, prevLowCurrent, lowVoltage,
             prevLowVoltage, highCurrent, highVoltage, gateShutdown,
             shutdownCode, hwDuty>>
winVars == <<window, closed>>

vars == <<variant, safetyEnable, numAverages, slowCalls, pc, setupDuty, setupCalls,
          nWindows,
          dutyCycle, ledState,
          VOLTAGE_SAFETY, avgCount, avgLowCurrentSum, avgHighCurrentSum,
          avgLowVoltageSum, avgHighVoltageSum, avgLowCurrent,
          avgPrevLowCurrent, avgLowVoltage, avgPrevLowVoltage, avgHighCurrent,
          avgHighVoltage, dV, dI, integralControl, actualLowVoltage,
          actualHighVoltage, desiredLowVoltage, actualLowCurrent,
          prevActualLowVoltage, prevActualLowCurrent, slowInterruptCounter,
          lowCurrent, prevLowCurrent, lowVoltage, prevLowVoltage, highCurrent,
          highVoltage, gateShutdown, shutdownCode, hwDuty, path, log, window,
          closed>>

(***************************************************************************)
(* Sensor readings: one reading of each sensor per step.  rawVL / rawVH    *)
(* are what getActualVL() / getActualVH() return, IL / IH what getIL() /   *)
(* getIH() return.                                                         *)
(***************************************************************************)
Reading(vl, il, vh, ih) == [rawVL |-> vl, IL |-> il, rawVH |-> vh, IH |-> ih]

\* Readings offered to the IC-only sketch.  Calibrated low side: 8000, 500
\* and 21000 mV (a window of the last closes above LOW_SIDE_MAX_VOLTAGE, a
\* first window of the second has I/V above 1 and increments the duty);
\* calibrated high side: 12000, 0 and 13000 mV.
SamplesIC ==
  { Reading(7964, 1000, 12245, 700), Reading(464, 1100, 0, 700),
    Reading(20964, 1000, 13266, 700) }

\* (int32_t)(((double)raw * scale) + offset), scale and offset given in
\* 1/1000: the values the conversion can return.  With a scale and an offset
\* that are values of the binary format (1, 36, 0) the result is exact.
Calibrated(raw, scaleMilli, offsetMilli) ==
  DTrunc(DAdd(DMul(DInt(raw), DLit(scaleMilli, 1000)),
              DLit(offsetMilli, 1000)))

getCalibratedVL_IC(raw) == Calibrated(raw, 1000, 36000)
getCalibratedVH_IC(raw) == Calibrated(raw, 980, 0)

(***************************************************************************)
(* Events of the log                                                       *)
(***************************************************************************)
Ev(e, t, v) == [ev |-> e, txt |-> t, val |-> v]
SetDuty(origin, v) == Ev("setDutyCycle", origin, v)
Printed(msg) == Ev("print", msg, 0)
Divide(what, divisor) == Ev("divide", what, divisor)

\* A call of controlUpdate made before setup() has called setDutyCycle is
\* counted (the calls made from then on, the ones that fire inside startPWM()
\* included, are calls of the running sketch).
Called == setupCalls' = (IF pc = "running" THEN setupCalls ELSE setupCalls + 1)

EmptyWindow == [n |-> 0, ticks |-> 0, il |-> 0, ih |-> 0, vl |-> 0, vh |-> 0]

\* The window record after one more call that feeds the calibrated sample.
Fed(w, il, ih, vl, vh) ==
  [n |-> w.n + 1, ticks |-> w.ticks + 1, il |-> w.il + il, ih |-> w.ih + ih,
   vl |-> w.vl + vl, vh |-> w.vh + vh]



(***************************************************************************)
(* Incremental-conductance step (the same text in the IC-only, PI+IC and   *)
(* AtverterH sketches, with each sketch's ranges)                          *)
(***************************************************************************)
\* Faulty variant of InDeadBand: first comparison turned round.
InDeadBandSwapped(dVv, vRange) == (-vRange > dVv) /\ (dVv < vRange)

\* (-VOLTAGE_ERROR_RANGE < dV) && (dV < VOLTAGE_ERROR_RANGE)
InDeadBand(dVv, vRange) == (-vRange < dVv) /\ (dVv < vRange)

\* Faulty variant of StationaryDelta: decrement tested against +range.
StationaryDeltaOneSided(dIv, cRange) ==
  IF dIv > cRange THEN 1 ELSE IF dIv < cRange THEN -1 ELSE 0

\* Branch 1: sign of the duty change decided from dI alone.
StationaryDelta(dIv, cRange) ==
  IF dIv > cRange THEN 1 ELSE IF dIv < -cRange THEN -1 ELSE 0

\* CURRENT_ERROR_RANGE / VOLTAGE_ERROR_RANGE: a division of two int macros.
Tolerance(vRange, cRange) == Quot(cRange, vRange)

\* -((double)I / V + tol) and -((double)I / V - tol)
LowerBound(I, V, tol) == DNeg(DAdd(DDiv(I, V), DInt(tol)))
UpperBound(I, V, tol) == DNeg(DAdd(DDiv(I, V), DInt(-tol)))

\* Branch 2: sign of the duty change decided from dI/dV against -I/V:
\* +1 if dI/dV > both bounds, -1 if dI/dV < both bounds, 0 otherwise.  The
\* outcomes are those of the ways the doubles can compare.
RatioDelta(dIv, dVv, I, V, vRange, cRange) ==
  LET r  == DDiv(dIv, dVv)
      lo == LowerBound(I, V, Tolerance(vRange, cRange))
      hi == UpperBound(I, V, Tolerance(vRange, cRange))
  IN  { IF ol = "gt" /\ oh = "gt" THEN 1
        ELSE IF ol = "lt" /\ oh = "lt" THEN -1
        ELSE 0 : ol \in DOrd(r, lo), oh \in DOrd(r, hi) }

\* The duty changes (in steps) the IC step can decide on.
ICDelta(dVv, dIv, I, V, vRange, cRange) ==
  IF InDeadBand(dVv, vRange)
    THEN {StationaryDelta(dIv, cRange)}
    ELSE RatioDelta(dIv, dVv, I, V, vRange, cRange)

DeltaFromZero(cur, prev) == cur

\* dV = avgLowVoltage - avgPrevLowVoltage; dI = avgLowCurrent -
\* avgPrevLowCurrent (lowVoltage - prevLowVoltage, ... in AtverterH).
Delta(cur, prev) == cur - prev

\* dutyCycle += DUTY_CYCLE_INCREMENT / += -DUTY_CYCLE_INCREMENT / no change,
\* on the uint16_t variable.
ICApply(duty, delta, step) == U16(duty + delta * step)

\* What the IC step leaves in the log: the duty variable before the step,
\* the divisions branch 2 evaluates, the decision printed, the duty variable
\* after the step; one log for each decision the step can make.
ICLog(dVv, dIv, I, V, duty, vRange, cRange, step) ==
  LET b1 == InDeadBand(dVv, vRange)
  IN  { <<Ev("dutyBeforeIC", IF b1 THEN "branch1" ELSE "branch2", duty)>>
        \o (IF b1 THEN <<>> ELSE <<Divide("dI/dV", dVv), Divide("I/V", V)>>)
        \o <<Ev("dutyAfterIC",
                IF delta > 0 THEN "inc" ELSE IF delta < 0 THEN "dec" ELSE "hold",
                ICApply(duty, delta, step))>> :
        delta \in ICDelta(dVv, dIv, I, V, vRange, cRange) }

(***************************************************************************)
(* Safety interlock                                                        *)
(***************************************************************************)
\* Faulty variant of SafetyFlagNext: the flag follows the level.
SafetyFlagLevel(flag, avgVL, maxVL) == IF avgVL > maxVL THEN 1 ELSE 0

\* if (avgLowVoltage > LOW_SIDE_MAX_VOLTAGE) { VOLTAGE_SAFETY = 1; ... }:
\* the flag after a window close.  No statement assigns 0 to the flag.
SafetyFlagNext(flag, avgVL, maxVL) == IF avgVL > maxVL THEN 1 ELSE flag

\* Safety path: dutyCycle = ((12000 / getCalibratedVH()) * 1024)
\* Faulty variant of ProtectiveDuty: the scaling by 1024 left out.
ProtectiveDutyUnscaled(vh) ==
  IF vh # 0 THEN {U16(Quot(PROTECTIVE_TARGET, vh))} ELSE 0..63

\* The values the uint16_t dutyCycle can take.  A division by VH = 0 is
\* undefined: any quotient q may result, and (q * 1024) mod 2^16 is one of
\* the 64 multiples of 1024.
ProtectiveDuty(vh) ==
  IF vh # 0
    THEN {U16(Quot(PROTECTIVE_TARGET, vh) * DUTY_SCALE)}
    ELSE {k * DUTY_SCALE : k \in 0..63}


(***************************************************************************)
(* Initial state: the file-scope variables as the C++ start-up leaves them *)
(* (zero unless initialised), before setup() runs.                         *)
(***************************************************************************)
DESIRED_LOW_VOLTAGE_PI == 5000

Variants == {"IC", "PIIC", "PI", "LEGACY", "H", "CAL"}

InitGlobals ==
  /\ pc = "boot" /\ setupDuty = 0 /\ setupCalls = 0 /\ nWindows = 0
  /\ dutyCycle = 0 /\ ledState = 1 /\ VOLTAGE_SAFETY = 0
  /\ avgCount = 0
  /\ avgLowCurrentSum = 0 /\ avgHighCurrentSum = 0
  /\ avgLowVoltageSum = 0 /\ avgHighVoltageSum = 0
  /\ avgLowCurrent = 0 /\ avgPrevLowCurrent = 0
  /\ avgLowVoltage = 0 /\ avgPrevLowVoltage = 0
  /\ avgHighCurrent = 0 /\ avgHighVoltage = 0
  /\ dV = 0 /\ dI = 0
  /\ integralControl = DZero /\ actualLowVoltage = 0
  /\ actualHighVoltage = 0
  /\ desiredLowVoltage = (IF variant = "PI" THEN DESIRED_LOW_VOLTAGE_PI ELSE 0)
  /\ actualLowCurrent = 0
  /\ prevActualLowVoltage = (IF variant = "LEGACY" THEN 1 ELSE 0)
  /\ prevActualLowCurrent = (IF variant = "LEGACY" THEN 1 ELSE 0)
  /\ slowInterruptCounter = 0
  /\ lowCurrent = 0 /\ prevLowCurrent = 0
  /\ lowVoltage = 0 /\ prevLowVoltage = 0
  /\ highCurrent = 0 /\ highVoltage = 0
  /\ gateShutdown = FALSE /\ shutdownCode = 0 /\ hwDuty = 0
  /\ path = "none" /\ log = <<>>
  /\ window = EmptyWindow /\ closed = EmptyWindow

\* The builds a run can be of.  The source has SAFETY_ENABLE 0, NUM_AVERAGES
\* 1000 and the slow-block literal 1000; SAFETY_ENABLE 1 compiles the safety
\* path in, and ScaledAverages / ScaledSlowCalls are builds with the macro
\* (the literal) redefined, whose windows the bounded runs go through.
Init ==
  /\ variant \in Variants
  /\ safetyEnable \in (IF variant \in {"IC", "PIIC"} THEN {0, 1} ELSE {0})
  /\ numAverages \in (IF variant \in {"IC", "PIIC"}
                        THEN {NUM_AVERAGES, ScaledAverages} ELSE {0})
  /\ slowCalls \in (IF variant = "H"
                      THEN {SLOW_INTERRUPT_CALLS, ScaledSlowCalls} ELSE {0})
  /\ InitGlobals

(***************************************************************************)
(* setup()                                                                 *)
(***************************************************************************)
\* setupPinMode(); initializePWMTimer(); initializeInterruptTimer(...);
\* Serial.begin(9600): from here on the timer may call controlUpdate.
setup_IC_register ==
  /\ variant = "IC" /\ pc = "boot"
  /\ pc' = "registered"
  /\ path' = "none" /\ log' = <<>>
  /\ UNCHANGED <<cfgVars, setupDuty, setupCalls, legacyVars, hVars, nWindows, dutyCycle, ledState, VOLTAGE_SAFETY,
                 avgVars, icVars, piVars, winVars>>

\* The timer interrupt can run controlUpdate between any two accesses setup
\* makes to dutyCycle after the registration: the assignment, the read of
\* the variable for the argument of setDutyCycle(dutyCycle), and the call
\* are steps of their own.

\* dutyCycle = 512;
setup_IC_assign ==
  /\ variant = "IC" /\ pc = "registered"
  /\ pc' = "assigned"
  /\ dutyCycle' = INITIAL_DUTY_IC
  /\ path' = "none" /\ log' = <<>>
  /\ UNCHANGED <<cfgVars, setupDuty, setupCalls, legacyVars, hVars, nWindows, ledState, VOLTAGE_SAFETY,
                 avgVars, icVars, piVars, winVars>>

\* The argument of atverterE.setDutyCycle(dutyCycle) is read from the variable
\* (sketch v).
SetupLoad(v) ==
  /\ variant = v /\ pc = "assigned"
  /\ pc' = "loaded"
  /\ setupDuty' = dutyCycle
  /\ path' = "none" /\ log' = <<>>
  /\ UNCHANGED <<cfgVars, setupCalls, legacyVars, hVars, nWindows, dutyCycle, ledState,
                 VOLTAGE_SAFETY, avgVars, icVars, piVars, winVars>>

\* atverterE.setDutyCycle(<argument>); (sketch v).  startPWM(), which follows,
\* touches nothing the sketch reads: from here on the sketch is running.
SetupHand(v) ==
  /\ variant = v /\ pc = "loaded"
  /\ pc' = "running"
  /\ path' = "none" /\ log' = <<SetDuty("setup", setupDuty)>>
  /\ UNCHANGED <<cfgVars, setupDuty, setupCalls, legacyVars, hVars, nWindows, dutyCycle,
                 ledState, VOLTAGE_SAFETY, avgVars, icVars, piVars, winVars>>

setup_IC_load == SetupLoad("IC")
setup_IC_duty == SetupHand("IC")

(***************************************************************************)
(* controlUpdate() of the IC-only averaging sketch                         *)
(***************************************************************************)
WindowCompleteEarly(count, n) == count = n - 1

\* if (avgCount == NUM_AVERAGES)
WindowComplete(count, n) == count = n

controlUpdate_IC(s) ==
  /\ variant = "IC" /\ pc # "boot"
  /\ Called
  /\ UNCHANGED <<cfgVars, setupDuty, legacyVars, hVars, pc, piVars>>
  /\ IF safetyEnable = 1 /\ VOLTAGE_SAFETY = 1
       THEN \* #if SAFETY_ENABLE ... if (VOLTAGE_SAFETY) { ...; return; }
         \E vh \in getCalibratedVH_IC(s.rawVH) :
         \E d \in ProtectiveDuty(vh) :
           /\ dutyCycle' = d
           /\ log' = <<Divide("12000/VH", vh),
                       SetDuty("protective", d),
                       Printed("Safety Shutoff Triggered")>>
           /\ path' = "shutdown"
           /\ UNCHANGED <<nWindows, ledState, VOLTAGE_SAFETY, avgVars,
                          icVars, piVars, winVars>>
       ELSE
         \E vl \in getCalibratedVL_IC(s.rawVL) :
         \E vh \in getCalibratedVH_IC(s.rawVH) :
         LET \* int sums are 16 bits wide, the voltage sums int32_t
             ilSum == I16(avgLowCurrentSum + s.IL)
             ihSum == I16(avgHighCurrentSum + s.IH)
             vlSum == avgLowVoltageSum + vl
             vhSum == avgHighVoltageSum + vh
             cnt   == I16(avgCount + 1)
             w     == Fed(window, s.IL, s.IH, vl, vh)
         IN
         /\ ledState' = 1 - ledState
         /\ IF WindowComplete(cnt, numAverages)
              THEN
                LET aLC  == Quot(ilSum, numAverages + 1)
                    aLV  == Quot(vlSum, numAverages + 1)
                    aHC  == Quot(ihSum, numAverages + 1)
                    aHV  == Quot(vhSum, numAverages + 1)
                    dVn  == Delta(aLV, avgPrevLowVoltage)
                    dIn  == I16(Delta(aLC, avgPrevLowCurrent))
                    trip == aLV > LOW_SIDE_MAX_VOLTAGE
                IN
                \E ic \in ICLog(dVn, dIn, aLC, aLV, dutyCycle,
                                VOLTAGE_ERROR_RANGE, CURRENT_ERROR_RANGE,
                                DUTY_CYCLE_INCREMENT) :
                LET duty == constrain(ic[Len(ic)].val, DUTY_MIN, DUTY_MAX)
                IN
                /\ avgLowCurrent' = aLC /\ avgLowVoltage' = aLV
                /\ avgHighCurrent' = aHC /\ avgHighVoltage' = aHV
                /\ dV' = dVn /\ dI' = dIn
                /\ VOLTAGE_SAFETY' = SafetyFlagNext(VOLTAGE_SAFETY, aLV,
                                                    LOW_SIDE_MAX_VOLTAGE)
                /\ avgCount' = 0
                /\ avgPrevLowCurrent' = aLC /\ avgPrevLowVoltage' = aLV
                /\ avgLowCurrentSum' = 0 /\ avgLowVoltageSum' = 0
                /\ avgHighCurrentSum' = 0 /\ avgHighVoltageSum' = 0
                /\ dutyCycle' = duty
                /\ log' = (IF trip THEN <<Printed("Low Side Overvoltage")>>
                                   ELSE <<>>)
                          \o ic
                          \o <<SetDuty("ic", duty),
                               Ev("transmitData", "DutyCycle", duty)>>
                /\ path' = "close"
                /\ nWindows' = nWindows + 1
                /\ closed' = w
                /\ window' = EmptyWindow
              ELSE
                /\ avgCount' = cnt
                /\ avgLowCurrentSum' = ilSum /\ avgHighCurrentSum' = ihSum
                /\ avgLowVoltageSum' = vlSum /\ avgHighVoltageSum' = vhSum
                /\ log' = <<>>
                /\ path' = "accumulate"
                /\ window' = w
                /\ UNCHANGED <<nWindows, dutyCycle, VOLTAGE_SAFETY, avgLowCurrent,
                               avgPrevLowCurrent, avgLowVoltage,
                               avgPrevLowVoltage, avgHighCurrent,
                               avgHighVoltage, icVars, closed>>

(***************************************************************************)
(* PI voltage regulator (PI+IC, PI-only and legacy sketches)               *)
(***************************************************************************)
kp == DLit(3, 10)         \* const double kp = 0.3
ki_PIIC == DLit(1, 20)    \* const double ki = 0.05

\* (double)voltageError / ((double)actualLowVoltage + guard); guard is the
\* "+ 1" of the PI-only sketch and 0 in the other two.
ErrorRatio(measured, desired, guard) == DDiv(measured - desired, measured + guard)

\* proportionalControl = -(kp * ratio)
Proportional(measured, desired, guard) ==
  DNeg(DMul(kp, ErrorRatio(measured, desired, guard)))

\* integralControl += -(ki * ratio)
IntegralNext(integral, ki, measured, desired, guard) ==
  DAdd(integral, DNeg(DMul(ki, ErrorRatio(measured, desired, guard))))

\* dutyCycle += (double)dutyCycle * (proportionalControl + integralControl):
\* the values the uint16_t can hold afterwards.
PIDuty(duty, integral, ki, measured, desired, guard) ==
  DToU16(DAdd(DInt(duty),
              DMul(DInt(duty),
                   DAdd(Proportional(measured, desired, guard),
                        IntegralNext(integral, ki, measured, desired, guard)))))

(***************************************************************************)
(* PI+IC averaging sketch                                                  *)
(***************************************************************************)
DESIRED_LOW_VOLTAGE_PIIC == 8000
LOW_SIDE_MAX_VOLTAGE_PIIC == 15000

getCalibratedVL_PIIC(raw) == Calibrated(raw, 1030, 36000)
getCalibratedVH_PIIC(raw) == Calibrated(raw, 1000, 0)

\* The readings of one call of the PI+IC sketch, which reads the low-side
\* voltage twice: rawVL is what getCalibratedVL() returns for the PI stage (line
\* 118), rawVL2 what it returns for the running sum (line 272).
Reading2(vl, vl2, il, vh, ih) ==
  [rawVL |-> vl, rawVL2 |-> vl2, IL |-> il, rawVH |-> vh, IH |-> ih]

\* Readings offered to the PI+IC sketch.  Calibrated low side: 8000 (the
\* target), 6000 and 28000 mV, and 8000 followed by 6000 mV within one call;
\* calibrated high side: 12000 and 13000 mV.
SamplesPIIC ==
  { Reading2(7733, 7733, 1000, 12000, 700),
    Reading2(27150, 27150, 1000, 13000, 700),
    Reading2(7733, 5791, 1000, 12000, 700) }

\* High-side readings at start-up.
BootVH == {12000, 100, 0}

\* The outcomes of an int32_t division by zero stored in a uint16_t: the
\* AVR has no divide trap and its library routine leaves an all-ones
\* quotient (65535 once truncated); a build may also leave 0.
DivideByZeroU16 == {0, 65535}

\* dutyCycle = (desiredLowVoltage * 1024) / actualHighVoltage, an int32_t
\* division stored in the uint16_t; a division by zero is undefined.
InitialDuty(desired, vh) ==
  IF vh # 0 THEN {U16(Quot(desired * DUTY_SCALE, vh))} ELSE DivideByZeroU16

\* desiredLowVoltage = 8000; actualHighVoltage = getCalibratedVH(); ...
\* initializeInterruptTimer(...); Serial.begin(9600);
setup_PIIC_register(rawVH) ==
  /\ variant = "PIIC" /\ pc = "boot"
  /\ pc' = "registered"
  /\ desiredLowVoltage' = DESIRED_LOW_VOLTAGE_PIIC
  /\ actualHighVoltage' \in getCalibratedVH_PIIC(rawVH)
  /\ path' = "none" /\ log' = <<>>
  /\ UNCHANGED <<cfgVars, setupDuty, setupCalls, legacyVars, hVars, nWindows, dutyCycle, ledState, VOLTAGE_SAFETY,
                 avgVars, icVars, integralControl, actualLowVoltage, winVars>>

\* dutyCycle = (desiredLowVoltage * 1024) / actualHighVoltage; (sketch v)
SetupAssign(v) ==
  /\ variant = v /\ pc = "registered"
  /\ pc' = "assigned"
  /\ dutyCycle' \in InitialDuty(desiredLowVoltage, actualHighVoltage)
  /\ path' = "none"
  /\ log' = <<Divide("desired*1024/VH", actualHighVoltage)>>
  /\ UNCHANGED <<cfgVars, setupDuty, setupCalls, legacyVars, hVars, nWindows, ledState,
                 VOLTAGE_SAFETY, avgVars, icVars, piVars, winVars>>

setup_PIIC_assign == SetupAssign("PIIC")
setup_PIIC_load == SetupLoad("PIIC")
setup_PIIC_duty == SetupHand("PIIC")

controlUpdate_PIIC(s) ==
  /\ variant = "PIIC" /\ pc # "boot"
  /\ Called
  /\ UNCHANGED <<cfgVars, setupDuty, legacyVars, hVars, pc, actualHighVoltage, desiredLowVoltage>>
  /\ IF safetyEnable = 1 /\ VOLTAGE_SAFETY = 1
       THEN \* #if SAFETY_ENABLE ... if (VOLTAGE_SAFETY) { ... } else
         \E vh \in getCalibratedVH_PIIC(s.rawVH) :
         \E d \in ProtectiveDuty(vh) :
           /\ dutyCycle' = d
           /\ log' = <<Divide("12000/VH", vh),
                       SetDuty("protective", d),
                       Printed("Safety Shutoff Triggered")>>
           /\ path' = "shutdown"
           /\ UNCHANGED <<nWindows, ledState, VOLTAGE_SAFETY, avgVars,
                          icVars, integralControl, actualLowVoltage, winVars>>
       ELSE
         \E vl \in getCalibratedVL_PIIC(s.rawVL) :
         \E vh \in getCalibratedVH_PIIC(s.rawVH) :
         LET intg == IntegralNext(integralControl, ki_PIIC, vl,
                                  desiredLowVoltage, 0)
         IN
         /\ actualLowVoltage' = vl
         /\ integralControl' = intg
         /\ ledState' = 1 - ledState
         /\ \E raw \in PIDuty(dutyCycle, integralControl, ki_PIIC, vl,
                              desiredLowVoltage, 0) :
              LET piDuty == constrain(raw, DUTY_MIN, DUTY_MAX)
                  piLog  == <<Divide("error/VL", vl), Ev("dutyAfterPI", "", raw),
                              SetDuty("pi", piDuty)>>
              IN
              IF avgCount = numAverages
                THEN
                  LET aLC  == Quot(avgLowCurrentSum, numAverages + 1)
                      aLV  == Quot(avgLowVoltageSum, numAverages + 1)
                      aHC  == Quot(avgHighCurrentSum, numAverages + 1)
                      aHV  == Quot(avgHighVoltageSum, numAverages + 1)
                      dVn  == Delta(aLV, avgPrevLowVoltage)
                      dIn  == Delta(aLC, avgPrevLowCurrent)
                      trip == aLV > LOW_SIDE_MAX_VOLTAGE_PIIC
                  IN
                  \E ic \in ICLog(dVn, dIn, aLC, aLV, piDuty,
                                  VOLTAGE_ERROR_RANGE, CURRENT_ERROR_RANGE,
                                  DUTY_CYCLE_INCREMENT) :
                  LET duty == ic[Len(ic)].val
                  IN
                  /\ avgLowCurrent' = aLC /\ avgLowVoltage' = aLV
                  /\ avgHighCurrent' = aHC /\ avgHighVoltage' = aHV
                  /\ dV' = dVn /\ dI' = dIn
                  /\ VOLTAGE_SAFETY' = SafetyFlagNext(VOLTAGE_SAFETY, aLV,
                                                    LOW_SIDE_MAX_VOLTAGE)
                  /\ avgCount' = 0
                  /\ avgPrevLowCurrent' = aLC /\ avgPrevLowVoltage' = aLV
                  /\ avgLowCurrentSum' = 0 /\ avgLowVoltageSum' = 0
                  /\ avgHighCurrentSum' = 0 /\ avgHighVoltageSum' = 0
                  /\ dutyCycle' = duty
                  /\ log' = piLog
                            \o (IF trip THEN <<Printed("Low Side Overvoltage")>>
                                        ELSE <<>>)
                            \o ic
                            \o <<Ev("transmitData", "DutyCycle", duty)>>
                  /\ path' = "close"
                  /\ nWindows' = nWindows + 1
                  /\ closed' = [window EXCEPT !.ticks = @ + 1]
                  /\ window' = EmptyWindow
                ELSE
                  \E vl2 \in getCalibratedVL_PIIC(s.rawVL2) :
                  /\ avgLowCurrentSum' = avgLowCurrentSum + s.IL
                  /\ avgLowVoltageSum' = avgLowVoltageSum + vl2
                  /\ avgHighCurrentSum' = avgHighCurrentSum + s.IH
                  /\ avgHighVoltageSum' = avgHighVoltageSum + vh
                  /\ avgCount' = I16(avgCount + 1)
                  /\ dutyCycle' = piDuty
                  /\ log' = piLog
                  /\ path' = "accumulate"
                  /\ window' = Fed(window, s.IL, s.IH, vl2, vh)
                  /\ UNCHANGED <<nWindows, VOLTAGE_SAFETY, avgLowCurrent,
                                 avgPrevLowCurrent, avgLowVoltage,
                                 avgPrevLowVoltage, avgHighCurrent,
                                 avgHighVoltage, icVars, closed>>

(***************************************************************************)
(* PI-only voltage-targeting sketch                                        *)
(***************************************************************************)
ki_PI == DZero            \* const double ki = 0.0

getCalibratedVL_PI(raw) == Calibrated(raw, 930, 250)
getCalibratedVH_PI(raw) == Calibrated(raw, 917, 76)

\* Low-side readings offered to the PI-only sketch: calibrated 5000 (the
\* target), 5580, 3720, 0 and 9 mV.
RawVL_PI == {5377, 6000, 4000, 0, 10}

\* actualHighVoltage = getCalibratedVH(); ...; initializeInterruptTimer(...);
\* Serial.begin(9600);
setup_PI_register(rawVH) ==
  /\ variant = "PI" /\ pc = "boot"
  /\ pc' = "registered"
  /\ actualHighVoltage' \in getCalibratedVH_PI(rawVH)
  /\ path' = "none" /\ log' = <<>>
  /\ UNCHANGED <<cfgVars, setupDuty, setupCalls, legacyVars, hVars, nWindows, dutyCycle, ledState,
                 VOLTAGE_SAFETY, avgVars, icVars, integralControl,
                 actualLowVoltage, desiredLowVoltage, winVars>>

setup_PI_assign == SetupAssign("PI")
setup_PI_load == SetupLoad("PI")
setup_PI_duty == SetupHand("PI")

controlUpdate_PI(rawVL) ==
  \E vl \in getCalibratedVL_PI(rawVL) :
  /\ variant = "PI" /\ pc # "boot"
  /\ nWindows' = nWindows + 1
  /\ actualLowVoltage' = vl
  /\ integralControl' =
       IntegralNext(integralControl, ki_PI, vl, desiredLowVoltage, 1)
  /\ \E raw \in PIDuty(dutyCycle, integralControl, ki_PI, vl,
                       desiredLowVoltage, 1) :
       LET duty == constrain(raw, DUTY_MIN, DUTY_MAX_PI) IN
       /\ dutyCycle' = duty
       /\ log' = <<Divide("error/(VL+1)", vl + 1), Ev("dutyAfterPI", "", raw),
                   SetDuty("pi", duty),
                   Ev("transmitData", "DutyCycle", duty)>>
  /\ ledState' = 1 - ledState
  /\ path' = "pi"
  /\ Called
  /\ UNCHANGED <<cfgVars, setupDuty, legacyVars, hVars, pc, VOLTAGE_SAFETY, avgVars,
                 icVars, actualHighVoltage, desiredLowVoltage, winVars>>

(***************************************************************************)
(* Legacy PI+IC sketch (PID_MPPT_wider_ranges.old)                         *)
(***************************************************************************)
VOLTAGE_ERROR_RANGE_OLD == 100
CURRENT_ERROR_RANGE_OLD == 200

\* Readings offered to the legacy sketch.  Calibrated low side 8000 and
\* 6000 mV; low-side currents 1000, 1200 and 1500 mA.
SamplesLegacy ==
  { Reading(7733, 1000, 12000, 700), Reading(7733, 1200, 12000, 700),
    Reading(7733, 1500, 12000, 700), Reading(5791, 1000, 12000, 700) }

\* if (-VOLTAGE_ERROR_RANGE < dV < VOLTAGE_ERROR_RANGE): C++ compares the
\* bool (0 or 1) of the first comparison with the range.
LegacyInDeadBand(dVv, vRange) ==
  (IF -vRange < dVv THEN 1 ELSE 0) < vRange

\* dI > RANGE: inc; else dI < RANGE: dec; else: no change.
LegacyStationaryDelta(dIv, cRange) ==
  IF dIv > cRange THEN 1 ELSE IF dIv < cRange THEN -1 ELSE 0

\* dI/dV > -actualLowCurrent/actualLowVoltage, in int32_t arithmetic: inc,
\* otherwise nothing.  A zero divisor is undefined: either outcome.
LegacyRatioDelta(dIv, dVv, I, V) ==
  IF dVv = 0 \/ V = 0 THEN {0, 1}
  ELSE IF Quot(dIv, dVv) > Quot(-I, V) THEN {1} ELSE {0}

LegacyICDelta(dVv, dIv, I, V, vRange, cRange) ==
  IF LegacyInDeadBand(dVv, vRange)
    THEN {LegacyStationaryDelta(dIv, cRange)}
    ELSE LegacyRatioDelta(dIv, dVv, I, V)

setup_LEGACY_register(rawVH) ==
  /\ variant = "LEGACY" /\ pc = "boot"
  /\ pc' = "registered"
  /\ desiredLowVoltage' = DESIRED_LOW_VOLTAGE_PIIC
  /\ actualHighVoltage' \in getCalibratedVH_PIIC(rawVH)
  /\ path' = "none" /\ log' = <<>>
  /\ UNCHANGED <<cfgVars, setupDuty, setupCalls, legacyVars, hVars, nWindows, dutyCycle, ledState,
                 VOLTAGE_SAFETY, avgVars, icVars, integralControl,
                 actualLowVoltage, winVars>>

setup_LEGACY_assign == SetupAssign("LEGACY")
setup_LEGACY_load == SetupLoad("LEGACY")
setup_LEGACY_duty == SetupHand("LEGACY")

controlUpdate_LEGACY(s) ==
  \E vl \in getCalibratedVL_PIIC(s.rawVL) :
  LET dVn  == Delta(vl, prevActualLowVoltage)
      dIn  == Delta(s.IL, prevActualLowCurrent)
      b1   == LegacyInDeadBand(dVn, VOLTAGE_ERROR_RANGE_OLD)
  IN
  /\ variant = "LEGACY" /\ pc # "boot"
  /\ nWindows' = nWindows + 1
  /\ actualLowVoltage' = vl
  /\ integralControl' =
       IntegralNext(integralControl, ki_PIIC, vl, desiredLowVoltage, 0)
  /\ actualLowCurrent' = s.IL
  /\ dV' = dVn /\ dI' = dIn
  /\ prevActualLowVoltage' = vl
  /\ prevActualLowCurrent' = s.IL
  /\ \E raw \in PIDuty(dutyCycle, integralControl, ki_PIIC, vl,
                       desiredLowVoltage, 0) :
     \E delta \in LegacyICDelta(dVn, dIn, s.IL, vl, VOLTAGE_ERROR_RANGE_OLD,
                                CURRENT_ERROR_RANGE_OLD) :
       LET piDuty == constrain(raw, DUTY_MIN, DUTY_MAX_PI)
           duty   == ICApply(piDuty, delta, DUTY_CYCLE_INCREMENT)
       IN
       /\ dutyCycle' = duty
       /\ log' = <<Divide("error/VL", vl), Ev("dutyAfterPI", "", raw),
                   SetDuty("pi", piDuty),
                   Ev("transmitData", "", 0),
                   Ev("dutyBeforeIC", IF b1 THEN "branch1" ELSE "branch2",
                      piDuty)>>
                 \o (IF b1 THEN <<>>
                           ELSE <<Divide("dI/dV", dVn), Divide("I/V", vl)>>)
                 \o <<Ev("dutyAfterIC",
                         IF delta > 0 THEN "inc"
                         ELSE IF delta < 0 THEN "dec" ELSE "hold", duty)>>
  /\ ledState' = 1 - ledState
  /\ path' = "pi+ic"
  /\ Called
  /\ UNCHANGED <<cfgVars, setupDuty, hVars, pc, VOLTAGE_SAFETY, avgVars,
                 actualHighVoltage, desiredLowVoltage, winVars>>

(***************************************************************************)
(* AtverterH sketch (unnamed/part_002).  The AtverterH library is outside  *)
(* the repository; of its state the model keeps what the sketch reads      *)
(* back: the gate-shutdown latch, the shutdown code and the duty register. *)
(***************************************************************************)
DUTY_CYCLE_INCREMENT_H == 1
VOLTAGE_ERROR_RANGE_H == 10
CURRENT_ERROR_RANGE_H == 10
LOW_SIDE_MAX_VOLTAGE_H == 18000
LOW_VOLTAGE_RESET == 9000
HIGH_VOLTAGE_RESET == 15000
INITIAL_DUTY_H == 50
RESET_DUTY_H == 50
SHUTDOWN_CODE_OVERVOLTAGE == 4

\* Filtered sensor values of one call: getV2(), getI2(), getV1(), getI1().
ReadingH(v2, i2) == [V2 |-> v2, I2 |-> i2, V1 |-> 24000, I1 |-> 500]

SamplesH ==
  { ReadingH(12000, -1000), ReadingH(12005, -1025), ReadingH(12050, -1010),
    ReadingH(8000, -1000), ReadingH(19000, -1000), ReadingH(0, -1000) }

\* dutyCycle = 50; startPWM(dutyCycle); initializeInterruptTimer(...); ...
setup_H ==
  /\ variant = "H" /\ pc = "boot"
  /\ pc' = "running"
  /\ dutyCycle' = INITIAL_DUTY_H
  /\ hwDuty' = INITIAL_DUTY_H
  /\ path' = "none" /\ log' = <<SetDuty("setup", INITIAL_DUTY_H)>>
  /\ UNCHANGED <<cfgVars, setupDuty, setupCalls, legacyVars, slowInterruptCounter, lowCurrent,
                 prevLowCurrent, lowVoltage, prevLowVoltage, highCurrent,
                 highVoltage, gateShutdown, shutdownCode, nWindows, ledState,
                 VOLTAGE_SAFETY, avgVars, icVars, piVars, winVars>>

\* What checkCurrentShutdown() and checkThermalShutdown() of the AtverterH
\* library can do in a call: 0 if they leave the gates alone, else the code
\* they shut the gates down with (a code of the library, not the sketch's).
LibraryShutdownCodes == {1, 2, 3}
LibraryChecks == {0} \cup LibraryShutdownCodes

GatesShutLatchOnly(latch, trip) == latch

\* atverterH.isGateShutdown() at line 95: the gates are shut down if they
\* were before the call or shutdownGates(4) has just been called.
GatesShut(latch, trip) == latch \/ trip

\* lib: what the library checks of lines 84-85 do in this call; late: what
\* the checkThermalShutdown() of the slow block (line 118) does.  A check
\* that shuts the gates down leaves a shutdownGates event in the log.
controlUpdate_H(s, lib, late) ==
  LET trip  == s.V2 > LOW_SIDE_MAX_VOLTAGE_H
      shut  == GatesShut(gateShutdown \/ lib # 0, trip)
      latch == gateShutdown \/ lib # 0 \/ trip
      read  == (IF lib # 0 THEN <<Ev("shutdownGates", "entry checks", lib)>>
                           ELSE <<>>)
               \o <<Ev("getV2", "", s.V2)>>
      code  == IF trip THEN SHUTDOWN_CODE_OVERVOLTAGE
               ELSE IF lib # 0 THEN lib ELSE shutdownCode
      reset == (s.V2 < LOW_VOLTAGE_RESET) \/ (s.V2 > HIGH_VOLTAGE_RESET)
      fast  == IF reset THEN <<SetDuty("reset", RESET_DUTY_H)>> ELSE <<>>
      cnt   == slowInterruptCounter + 1
  IN
  /\ variant = "H" /\ pc # "boot"
  /\ Called
  /\ UNCHANGED <<cfgVars, setupDuty, legacyVars, pc, VOLTAGE_SAFETY, avgVars, piVars>>
  /\ IF shut
       THEN
         /\ gateShutdown' = latch
         /\ shutdownCode' = code
         /\ log' = read
                   \o (IF trip THEN <<Printed("Low Side Overvoltage")>> ELSE <<>>)
                   \o <<Printed("Safety Shutoff Triggered"),
                        Ev("print", "Shutdown Code: ", code)>>
         /\ path' = "gate_shutdown"
         /\ UNCHANGED <<nWindows, dutyCycle, ledState, icVars,
                        slowInterruptCounter, lowCurrent, prevLowCurrent,
                        lowVoltage, prevLowVoltage, highCurrent, highVoltage,
                        hwDuty, winVars>>
       ELSE
         /\ IF cnt > slowCalls
              THEN
                LET lc   == -s.I2
                    lv   == s.V2
                    dVn  == Delta(lv, prevLowVoltage)
                    dIn  == Delta(lc, prevLowCurrent)
                IN
                \E ic \in ICLog(dVn, dIn, lc, lv, dutyCycle,
                                VOLTAGE_ERROR_RANGE_H, CURRENT_ERROR_RANGE_H,
                                DUTY_CYCLE_INCREMENT_H) :
                LET duty == ic[Len(ic)].val
                IN
                /\ slowInterruptCounter' = 0
                /\ gateShutdown' = (latch \/ late # 0)
                /\ shutdownCode' = (IF late # 0 THEN late ELSE code)
                /\ ledState' = 1 - ledState
                /\ lowCurrent' = lc /\ lowVoltage' = lv
                /\ highCurrent' = s.I1 /\ highVoltage' = s.V1
                /\ dV' = dVn /\ dI' = dIn
                /\ prevLowCurrent' = lc /\ prevLowVoltage' = lv
                /\ dutyCycle' = duty
                /\ hwDuty' = duty
                /\ log' = read \o fast
                          \o (IF late # 0
                                THEN <<Ev("shutdownGates", "slow-block check",
                                          late)>>
                                ELSE <<>>)
                          \o ic
                          \o <<SetDuty("ic", duty),
                               Ev("transmitData", "DutyCycle", duty)>>
                /\ path' = "slow"
                /\ nWindows' = nWindows + 1
                /\ closed' = [window EXCEPT !.ticks = @ + 1]
                /\ window' = EmptyWindow
              ELSE
                /\ slowInterruptCounter' = cnt
                /\ gateShutdown' = latch
                /\ shutdownCode' = code
                /\ hwDuty' = (IF reset THEN RESET_DUTY_H ELSE hwDuty)
                /\ log' = read \o fast
                /\ path' = "fast"
                /\ window' = [window EXCEPT !.ticks = @ + 1]
                /\ UNCHANGED <<nWindows, dutyCycle, ledState, icVars,
                               lowCurrent, prevLowCurrent, lowVoltage,
                               prevLowVoltage, highCurrent, highVoltage,
                               closed>>

(***************************************************************************)
(* Calibration tool sketch (second sketch of the .cpp file): it reads the  *)
(* two voltage sensors and sends the calibrated values over the UART.  It  *)
(* has no duty variable (setup hands the literal 512) and never assigns    *)
(* actualLowVoltage.                                                       *)
(***************************************************************************)
INITIAL_DUTY_CAL == 512

getCalibratedVL_CAL(raw) == Calibrated(raw, 1000, 0)
getCalibratedVH_CAL(raw) == Calibrated(raw, 1000, 0)

\* Readings offered to the calibration sketch: low side 0, 5000 and 8000 mV,
\* high side 12000 and 0 mV.
SamplesCAL ==
  { Reading(0, 0, 12000, 0), Reading(5000, 0, 12000, 0),
    Reading(8000, 0, 0, 0) }

\* actualHighVoltage = getCalibratedVH(); setupPinMode();
\* initializePWMTimer(); initializeInterruptTimer(...); Serial.begin(9600):
\* from here on the timer may call controlUpdate.
setup_CAL_register(rawVH) ==
  /\ variant = "CAL" /\ pc = "boot"
  /\ pc' = "registered"
  /\ actualHighVoltage' \in getCalibratedVH_CAL(rawVH)
  /\ path' = "none" /\ log' = <<>>
  /\ UNCHANGED <<cfgVars, setupDuty, setupCalls, legacyVars, hVars, nWindows, dutyCycle, ledState,
                 VOLTAGE_SAFETY, avgVars, icVars, integralControl,
                 actualLowVoltage, desiredLowVoltage, winVars>>

\* setDutyCycle(512); startPWM();
setup_CAL_duty ==
  /\ variant = "CAL" /\ pc = "registered"
  /\ pc' = "running"
  /\ path' = "none" /\ log' = <<SetDuty("setup", INITIAL_DUTY_CAL)>>
  /\ UNCHANGED <<cfgVars, setupDuty, setupCalls, legacyVars, hVars, nWindows, dutyCycle, ledState,
                 VOLTAGE_SAFETY, avgVars, icVars, piVars, winVars>>

\* transmitData(); setLED(LED1G_PIN, ledState); ledState = !ledState;
controlUpdate_CAL(s) ==
  /\ variant = "CAL" /\ pc # "boot"
  /\ \E vl \in getCalibratedVL_CAL(s.rawVL) :
     \E vh \in getCalibratedVH_CAL(s.rawVH) :
       log' = <<Ev("print", "LowSideVoltage: ", vl),
                Ev("print", "HighSideVoltage: ", vh),
                Ev("setLED", "LED1G_PIN", ledState)>>
  /\ ledState' = 1 - ledState
  /\ path' = "calibrate"
  /\ Called
  /\ UNCHANGED <<cfgVars, setupDuty, legacyVars, hVars, pc, nWindows, dutyCycle,
                 VOLTAGE_SAFETY, avgVars, icVars, piVars, winVars>>

(***************************************************************************)
(* Specification                                                           *)
(***************************************************************************)
\* The calls of controlUpdate made since the last decision (all calls of the
\* run, in a build that takes 1000 calls to a decision) stay below
\* MaxSourceTicks in a build with the window size of the source.
SourceRunBound ==
  (numAverages = NUM_AVERAGES \/ slowCalls = SLOW_INTERRUPT_CALLS)
    => window.ticks < MaxSourceTicks

\* The calls the PI+IC sketch has made on its regulation path (a window
\* takes numAverages + 1 of them) stay below MaxPIICTicks.
PIICRunBound == nWindows * (numAverages + 1) + window.ticks < MaxPIICTicks

\* setup() calls setDutyCycle before MaxSetupTicks timer periods have passed
\* since it registered the callback.
SetupRunBound == pc = "running" \/ setupCalls < MaxSetupTicks

\* A run makes at most MaxWindows control decisions (window closes, slow
\* blocks).
WindowRunBound == nWindows < MaxWindows

\* A run of a sketch without averaging makes at most MaxPITicks calls.
PIRunBound == nWindows < MaxPITicks

Next ==
  \/ setup_IC_register
  \/ setup_IC_assign
  \/ setup_IC_load
  \/ setup_IC_duty
  \/ \E s \in SamplesIC :
       SetupRunBound /\ SourceRunBound /\ WindowRunBound /\ controlUpdate_IC(s)
  \/ \E vh \in BootVH : setup_PIIC_register(vh)
  \/ setup_PIIC_assign
  \/ setup_PIIC_load
  \/ setup_PIIC_duty
  \/ \E s \in SamplesPIIC :
       SetupRunBound /\ PIICRunBound /\ WindowRunBound /\ controlUpdate_PIIC(s)
  \/ \E vh \in BootVH : setup_PI_register(vh)
  \/ setup_PI_assign
  \/ setup_PI_load
  \/ setup_PI_duty
  \/ \E vl \in RawVL_PI : SetupRunBound /\ PIRunBound /\ controlUpdate_PI(vl)
  \/ \E vh \in BootVH : setup_LEGACY_register(vh)
  \/ setup_LEGACY_assign
  \/ setup_LEGACY_load
  \/ setup_LEGACY_duty
  \/ \E s \in SamplesLegacy :
       SetupRunBound /\ PIRunBound /\ controlUpdate_LEGACY(s)
  \/ setup_H
  \/ \E s \in SamplesH : \E lib \in LibraryChecks : \E late \in LibraryChecks :
       SourceRunBound /\ WindowRunBound /\ controlUpdate_H(s, lib, late)
  \/ \E vh \in BootVH : setup_CAL_register(vh)
  \/ setup_CAL_duty
  \/ \E s \in SamplesCAL : SetupRunBound /\ controlUpdate_CAL(s)

Spec == Init /\ [][Next]_vars

(***************************************************************************)
(* SpecIC: long runs of the three sketches with the current IC step, and   *)
(* short runs of the legacy sketch, from the initial state of the program, *)
(* on few readings.                                                        *)
(*   IC-only: windows of 8000 mV / 2000 mA and of 8020 mV / 1900 mA        *)
(* readings average to 6000 / 1500 and 6015 / 1425 (the sums are divided   *)
(* by NUM_AVERAGES + 1); a change from one to the other has dI/dV = -5,    *)
(* below the band, in both directions, so the duty goes down window by     *)
(* window; one reading exchanged changes the averages by 5 mV and 25 mA,   *)
(* inside the voltage range and outside the current range.                 *)
(*   PI+IC: three readings of 640 mV / 1056 mA average to 480 / 792; two   *)
(* of 660 mV / 1156 mA and one of 680 mV / 888 mA average to 500 / 800:    *)
(* dI/dV = 8/20 = 0.4 lies on the upper bound -(800/500 - 2) = 0.4 of the  *)
(* band.  A window with one reading of 660 mV / 1156 mA after a window of  *)
(* the first has dV = 5, dI = 25.                                          *)
(*   AtverterH: 12000 mV / 2000 mA and 12020 mV / 1950 mA have             *)
(* dI/dV = -2.5 in both directions, below the band.                        *)
(***************************************************************************)
ScenarioSamplesIC ==
  { Reading(7964, 2000, 12245, 700), Reading(7984, 1900, 12245, 700) }
ScenarioSamplesPIIC ==
  { Reading2(587, 587, 1056, 12000, 700),
    Reading2(606, 606, 1156, 12000, 700),
    Reading2(626, 626, 888, 12000, 700) }
ScenarioSamplesH ==
  { ReadingH(12000, -2000), ReadingH(12020, -1950) }

\* High-side reading at start-up of the PI+IC sketch.
ScenarioBootVH == {12000}

\* The initial states of the sketches with an IC step, SAFETY_ENABLE 0 as in
\* the source.
InitIC ==
  /\ Init
  /\ variant \in {"IC", "PIIC", "H", "LEGACY"}
  /\ safetyEnable = 0

\* A long run makes at most MaxLongWindows window closes (IC-only),
\* MaxWindows (PI+IC) or MaxSlowBlocks slow blocks (AtverterH).
LongRunBound ==
  nWindows < (IF variant = "IC" THEN MaxLongWindows
              ELSE IF variant = "H" THEN MaxSlowBlocks ELSE MaxWindows)

NextIC ==
  \/ setup_IC_register
  \/ setup_IC_assign
  \/ setup_IC_load
  \/ setup_IC_duty
  \/ \E s \in ScenarioSamplesIC :
       SetupRunBound /\ SourceRunBound /\ LongRunBound /\ controlUpdate_IC(s)
  \/ \E vh \in ScenarioBootVH : setup_PIIC_register(vh)
  \/ setup_PIIC_assign
  \/ setup_PIIC_load
  \/ setup_PIIC_duty
  \/ \E s \in ScenarioSamplesPIIC :
       SetupRunBound /\ SourceRunBound /\ LongRunBound /\ controlUpdate_PIIC(s)
  \/ setup_H
  \/ \E s \in ScenarioSamplesH :
     \E lib \in LibraryChecks : \E late \in LibraryChecks :
       SourceRunBound /\ LongRunBound /\ controlUpdate_H(s, lib, late)
  \/ \E vh \in ScenarioBootVH : setup_LEGACY_register(vh)
  \/ setup_LEGACY_assign
  \/ setup_LEGACY_load
  \/ setup_LEGACY_duty
  \/ \E s \in SamplesLegacy :
       SetupRunBound /\ PIRunBound /\ controlUpdate_LEGACY(s)

SpecIC == InitIC /\ [][NextIC]_vars

(***************************************************************************)
(* SpecFull: the IC-only sketch as the source builds it (NUM_AVERAGES 1000, *)
(* SAFETY_ENABLE 0) through whole windows, on one reading.                  *)
(***************************************************************************)
\* Calibrated low side 8000 mV, low-side current 100 mA, calibrated high
\* side 12000 mV, high-side current 70 mA.
SamplesFull == { Reading(7964, 100, 12245, 70) }

InitFull ==
  /\ variant = "IC"
  /\ safetyEnable = 0
  /\ numAverages = NUM_AVERAGES
  /\ slowCalls = 0
  /\ InitGlobals

NextFull ==
  \/ setup_IC_register
  \/ setup_IC_assign
  \/ setup_IC_load
  \/ setup_IC_duty
  \/ \E s \in SamplesFull : SetupRunBound /\ WindowRunBound /\ controlUpdate_IC(s)

SpecFull == InitFull /\ [][NextFull]_vars

(***************************************************************************)
(* Properties                                                              *)
(***************************************************************************)
Events(l, e) == {i \in DOMAIN l : l[i].ev = e}
DutyWrites(l) == Events(l, "setDutyCycle")
RegulationWrites(l) == {i \in DutyWrites(l) : l[i].txt \in {"ic", "pi"}}
ProtectiveWrites(l) == {i \in DutyWrites(l) : l[i].txt = "protective"}
Prints(l, msg) == {i \in Events(l, "print") : l[i].txt = msg}
RatioDivisions(l) == {i \in Events(l, "divide") : l[i].txt = "dI/dV"}

Averaging == {"IC", "PIIC"}
ClampMaxOf == IF variant = "PI" THEN DUTY_MAX_PI ELSE DUTY_MAX
MaxVoltageOf ==
  IF variant = "PIIC" THEN LOW_SIDE_MAX_VOLTAGE_PIIC ELSE LOW_SIDE_MAX_VOLTAGE

\* The last step ran the IC step of one of the three current IC sketches.
ICStepRan == variant \in {"IC", "PIIC", "H"} /\ path \in {"close", "slow"}
StepOf == IF variant = "H" THEN DUTY_CYCLE_INCREMENT_H ELSE DUTY_CYCLE_INCREMENT
VRangeOf == IF variant = "H" THEN VOLTAGE_ERROR_RANGE_H ELSE VOLTAGE_ERROR_RANGE
CRangeOf == IF variant = "H" THEN CURRENT_ERROR_RANGE_H ELSE CURRENT_ERROR_RANGE
ICCurrent == IF variant = "H" THEN lowCurrent ELSE avgLowCurrent
ICVoltage == IF variant = "H" THEN lowVoltage ELSE avgLowVoltage
DutyBeforeIC ==
  CHOOSE v \in {log[i].val : i \in Events(log, "dutyBeforeIC")} : TRUE
DutyAfterIC ==
  CHOOSE v \in {log[i].val : i \in Events(log, "dutyAfterIC")} : TRUE
Sgn(a) == IF a > 0 THEN 1 ELSE IF a < 0 THEN -1 ELSE 0

\* C1: in the IC-only, PI+IC and PI-only sketches every duty value that
\* controlUpdate hands to setDutyCycle on its regulation path lies within
\* the clamp bounds of the sketch: [10, 1023], and [10, 1014] for PI-only.
C1_RegulationDutyClamped ==
  variant \in {"IC", "PIIC", "PI"} =>
    \A i \in RegulationWrites(log) :
      DUTY_MIN <= log[i].val /\ log[i].val <= ClampMaxOf

\* A PI step whose unclamped result exceeded 1023 and was handed as 1023.
C1_ClampedAtMax ==
  /\ variant = "PIIC"
  /\ \E i \in Events(log, "dutyAfterPI") : log[i].val > DUTY_MAX
  /\ \E i \in RegulationWrites(log) : log[i].val = DUTY_MAX

\* C2: built with SAFETY_ENABLE 0, once the safety flag is set no later tick
\* of an averaging sketch hands a regulation-derived (PI or IC) duty value
\* to setDutyCycle.
C2_NoRegulationAfterTrip ==
  [][(variant \in Averaging /\ safetyEnable = 0 /\ VOLTAGE_SAFETY = 1
        /\ path' # "none")
       => RegulationWrites(log') = {}]_vars

\* C3: built with SAFETY_ENABLE 1, the tick whose window closes with the
\* averaged low-side voltage above the maximum sets the flag, reports the
\* trip, and hands the protective value and no PI or IC result.
C3_TripTickProtective ==
  (variant \in Averaging /\ safetyEnable = 1 /\ path = "close"
     /\ avgLowVoltage > MaxVoltageOf)
    => /\ VOLTAGE_SAFETY = 1
       /\ Prints(log, "Low Side Overvoltage") # {}
       /\ RegulationWrites(log) = {}
       /\ ProtectiveWrites(log) # {}

C5_SafetyFlagOneShot ==
  [][(variant \in {"IC", "PIIC", "PI", "LEGACY"} /\ VOLTAGE_SAFETY = 1)
       => VOLTAGE_SAFETY' = 1]_vars

\* After a trip a later window closed with a voltage below the maximum and
\* the flag is still set.
C5_FlagKeptBelowMax ==
  /\ variant \in Averaging /\ VOLTAGE_SAFETY = 1
  /\ path = "close" /\ avgLowVoltage <= MaxVoltageOf

\* C6: at every window close of an averaging sketch each of the four
\* averages is the sum of the N samples fed since the previous close divided
\* by N + 1 (truncating), and sums and avgCount are zero after the tick.
C6_AveragesExact ==
  (variant \in Averaging /\ path = "close") =>
    /\ closed.n = numAverages
    /\ avgLowCurrent = Quot(closed.il, numAverages + 1)
    /\ avgHighCurrent = Quot(closed.ih, numAverages + 1)
    /\ avgLowVoltage = Quot(closed.vl, numAverages + 1)
    /\ avgHighVoltage = Quot(closed.vh, numAverages + 1)
    /\ avgLowCurrentSum = 0 /\ avgHighCurrentSum = 0
    /\ avgLowVoltageSum = 0 /\ avgHighVoltageSum = 0
    /\ avgCount = 0

\* C7: in an averaging sketch every tick outside shutdown feeds one sample,
\* a window closes on exactly every N-th such tick, and avgCount never
\* exceeds N.
C7_WindowEveryNthTick ==
  variant \in Averaging =>
    /\ avgCount <= numAverages
    /\ window.n = window.ticks
    /\ path = "close" =>
         (closed.ticks = numAverages /\ closed.n = closed.ticks)

\* The change the stationary-voltage branch decides on: +step if
\* dI > CURRENT_ERROR_RANGE, -step if dI < -CURRENT_ERROR_RANGE, else 0.
C8_Decided ==
  IF dI > CRangeOf THEN StepOf ELSE IF dI < -CRangeOf THEN -StepOf ELSE 0

C9_RatioBranch ==
  (ICStepRan /\ ~(-VRangeOf < dV /\ dV < VRangeOf) /\ ICVoltage # 0) =>
    LET t     == CRangeOf \div VRangeOf
        den   == Sgn(dV) * Sgn(ICVoltage)
        above == Sgn(dI * ICVoltage + ICCurrent * dV - t * dV * ICVoltage)
                   * den > 0
        below == Sgn(dI * ICVoltage + ICCurrent * dV + t * dV * ICVoltage)
                   * den < 0
    IN  /\ ~(above /\ below)
        /\ DutyAfterIC =
             (DutyBeforeIC
                + (IF above THEN StepOf ELSE IF below THEN -StepOf ELSE 0))
               % 65536

\* C10: in every sketch with an IC step (legacy included) the ratio dI/dV
\* is never evaluated with dV = 0.
C10_RatioNeverDividesByZero ==
  \A i \in RatioDivisions(log) : log[i].val # 0

\* An IC step of a current sketch ran on dV = 0 and took the
\* stationary-voltage branch.
C10_ZeroDVStationary ==
  /\ variant \in {"IC", "PIIC", "H"}
  /\ dV = 0
  /\ \E i \in Events(log, "dutyBeforeIC") : log[i].txt = "branch1"
  /\ RatioDivisions(log) = {}

\* C11: no tick computes the conductance I/V of branch 2 with V = 0, nor
\* the protective quotient 12000 / VH with VH = 0.
C11_NoZeroDivisor ==
  \A i \in Events(log, "divide") :
    log[i].txt \in {"I/V", "12000/VH"} => log[i].val # 0

PIVariants == {"PI", "PIIC"}
PIWrites(l) == {i \in DutyWrites(l) : l[i].txt = "pi"}
\* The step is a tick that ran the PI stage.
PIStepRan == path' \in {"pi", "accumulate", "close"}

\* C12: in the PI-only and PI+IC sketches, once setup has completed and with
\* the duty cycle inside the clamp bounds, a tick that measures the low-side
\* voltage equal to desiredLowVoltage leaves the integral accumulator
\* unchanged and hands the duty cycle it started with.
C12_ZeroErrorHoldsDuty ==
  [][(variant \in PIVariants /\ pc = "running" /\ PIStepRan
        /\ actualLowVoltage' = desiredLowVoltage
        /\ DUTY_MIN <= dutyCycle /\ dutyCycle <= DUTY_MAX_PI)
       => /\ integralControl' = integralControl
          /\ \A i \in PIWrites(log') : log'[i].val = dutyCycle]_vars

SetupWrites(l) == {i \in DutyWrites(l) : l[i].txt = "setup"}
SetupVariants == {"PIIC", "PI", "LEGACY"}

\* C13: in the PI+IC, PI-only and legacy sketches the duty value setup hands
\* to setDutyCycle is floor(desiredLowVoltage * 1024 / actualHighVoltage)
\* for the high-side voltage read at start-up.
C13_InitialDutyFormula ==
  variant \in SetupVariants =>
    \A i \in SetupWrites(log) :
      /\ actualHighVoltage # 0
      /\ log[i].val = Quot(desiredLowVoltage * DUTY_SCALE, actualHighVoltage)

ErrorDivisions(l) ==
  {i \in Events(l, "divide") : l[i].txt \in {"error/VL", "error/(VL+1)"}}

\* C14: in the PI-only, PI+IC and legacy sketches a tick that measures a
\* low-side voltage of 0 skips the PI update: it divides nothing by the
\* measured voltage, hands no duty value, and leaves the duty cycle and the
\* integral accumulator unchanged.
C14_ZeroVoltageSkipsPI ==
  [][(variant \in {"PI", "PIIC", "LEGACY"} /\ path' \notin {"none", "shutdown"}
        /\ actualLowVoltage' = 0)
       => /\ ErrorDivisions(log') = {}
          /\ DutyWrites(log') = {}
          /\ dutyCycle' = dutyCycle
          /\ integralControl' = integralControl]_vars

\* C15: a tick of the IC-only sketch that gets past the safety check and
\* whose incremented avgCount differs from NUM_AVERAGES calls neither
\* setDutyCycle nor transmitData and prints nothing; it leaves dutyCycle, the
\* averages, the previous averages, dV, dI and the safety flag unchanged, and
\* it increments avgCount and toggles the heartbeat.
C15_AccumulateTickFrame ==
  [][(variant = "IC" /\ path' \notin {"none", "shutdown"}
        /\ I16(avgCount + 1) # numAverages)
       => /\ log' = <<>>
          /\ UNCHANGED <<dutyCycle, avgLowCurrent, avgLowVoltage,
                         avgHighCurrent, avgHighVoltage, avgPrevLowCurrent,
                         avgPrevLowVoltage, dV, dI, VOLTAGE_SAFETY>>
          /\ avgCount' = I16(avgCount + 1)
          /\ ledState' # ledState]_vars

\* A non-closing tick of the running IC-only sketch in a window that follows
\* a closed one.
C15_AccumulatedAfterClose ==
  /\ variant = "IC" /\ pc = "running" /\ path = "accumulate"
  /\ nWindows >= 1 /\ avgCount >= 1 /\ avgCount < numAverages
  /\ avgLowVoltageSum > 0

\* C16: in the IC-only, PI+IC and PI-only sketches no tick runs between the
\* registration of the callback and the end of setup, so every tick finds
\* the duty cycle initialised by setup and setup's write of dutyCycle never
\* follows a tick.
C16_NoTickDuringSetup ==
  (variant \in {"IC", "PIIC", "PI"} /\ path # "none") => pc = "running"

Telemetry(l) == Events(l, "transmitData")

\* C17: on every window-closing tick of the IC-only and PI+IC sketches
\* transmitData runs after the duty cycle was handed to setDutyCycle, and
\* the duty cycle it prints is the value that was handed on that tick.
C17_TelemetryReportsHandedDuty ==
  (variant \in Averaging /\ path = "close") =>
    /\ Telemetry(log) # {}
    /\ \A r \in Telemetry(log) :
         /\ DutyWrites(log) # {}
         /\ \A i \in DutyWrites(log) : i < r /\ log[i].val = log[r].val

ProtectiveDivisors(l) ==
  {l[j].val : j \in {k \in Events(l, "divide") : l[k].txt = "12000/VH"}}

\* C18: built with SAFETY_ENABLE 1, the protective duty value handed to
\* setDutyCycle on a shutdown tick lies within [10, 1023] whenever the
\* high-side reading that divides 12000 is positive.
C18_ProtectiveDutyInBounds ==
  (variant \in Averaging /\ safetyEnable = 1
     /\ \E v \in ProtectiveDivisors(log) : v > 0)
    => \A i \in ProtectiveWrites(log) :
         DUTY_MIN <= log[i].val /\ log[i].val <= DUTY_MAX

GateShutdownPrints(l) == Prints(l, "Safety Shutoff Triggered")

\* The shutdowns the library checks at the head of a call made.
LibraryShutdowns(l) ==
  {i \in Events(l, "shutdownGates") : l[i].txt = "entry checks"}

\* C19: on every AtverterH tick that finds the gates shut down at the
\* isGateShutdown check, the tick that calls shutdownGates on V2 above
\* LOW_SIDE_MAX_VOLTAGE included, controlUpdate prints the shutdown report,
\* calls setDutyCycle not at all, and leaves dutyCycle, prevLowVoltage,
\* prevLowCurrent and slowInterruptCounter unchanged.  A tick finds the
\* gates shut down if they were before the call, if a library check of the
\* call shut them down, or if the call read V2 above the maximum.
C19_GateShutdownTickFrame ==
  [][(variant = "H" /\ path' # "none"
        /\ (\/ gateShutdown
            \/ LibraryShutdowns(log') # {}
            \/ \E i \in Events(log', "getV2") :
                 log'[i].val > LOW_SIDE_MAX_VOLTAGE_H))
       => /\ GateShutdownPrints(log') # {}
          /\ DutyWrites(log') = {}
          /\ UNCHANGED <<dutyCycle, prevLowVoltage, prevLowCurrent,
                         slowInterruptCounter, hwDuty>>]_vars

\* The tick that calls shutdownGates, after a slow block has run and with
\* the slow counter part-way to its next block.
C19_TripTickAfterSlowBlock ==
  /\ variant = "H" /\ gateShutdown /\ nWindows >= 1
  /\ Prints(log, "Low Side Overvoltage") # {}
  /\ DutyWrites(log) = {}
  /\ slowInterruptCounter >= 1 /\ prevLowVoltage # 0

InResetBand(v) == LOW_VOLTAGE_RESET <= v /\ v <= HIGH_VOLTAGE_RESET

\* C20: an AtverterH tick that starts with the gates shut down and reads V2
\* inside the reset band [9000, 15000] returns to normal operation: the
\* gates are no longer shut down and the tick runs the regulation path.
C20_AutoResetInBand ==
  [][(variant = "H" /\ gateShutdown /\ path' # "none"
        /\ \E i \in Events(log', "getV2") : InResetBand(log'[i].val))
       => ~gateShutdown' /\ path' \in {"fast", "slow"}]_vars

ICWrites(l) == {i \in DutyWrites(l) : l[i].txt = "ic"}

\* C21: in the AtverterH sketch the duty value a slow block hands to
\* setDutyCycle after the IC step lies within 0..1023, and the IC step moves
\* the 16-bit duty variable by at most one step without wrapping around.
C21_AtverterHDutyClamped ==
  (variant = "H" /\ path = "slow") =>
    /\ \A i \in ICWrites(log) : 0 <= log[i].val /\ log[i].val <= DUTY_MAX
    /\ Abs(DutyAfterIC - DutyBeforeIC) <= DUTY_CYCLE_INCREMENT_H

ICDecision(l) ==
  CHOOSE w \in {l[i].txt : i \in Events(l, "dutyAfterIC")} : TRUE

\* C22: in the IC-only sketch, starting from a duty cycle within the clamp
\* bounds, the duty handed at a window close differs from the duty before the
\* tick by at most DUTY_CYCLE_INCREMENT; a decrement decision does not raise
\* it and an increment decision does not lower it.
C22_CloseMovesAtMostOneStep ==
  [][(variant = "IC" /\ path' = "close"
        /\ DUTY_MIN <= dutyCycle /\ dutyCycle <= DUTY_MAX)
       => /\ \A i \in ICWrites(log') :
               /\ Abs(log'[i].val - dutyCycle) <= DUTY_CYCLE_INCREMENT
               /\ ICDecision(log') = "dec" => log'[i].val <= dutyCycle
               /\ ICDecision(log') = "inc" => log'[i].val >= dutyCycle]_vars

Combined == {"PIIC", "LEGACY"}
ClampMaxOfCombined == IF variant = "LEGACY" THEN DUTY_MAX_PI ELSE DUTY_MAX

\* C23: in the PI+IC and legacy sketches the duty cycle a tick leaves in the
\* dutyCycle variable lies within the clamp bounds of the sketch and is the
\* value the tick handed to setDutyCycle.
C23_StoredDutyIsHandedDuty ==
  (variant \in Combined /\ path \in {"accumulate", "close", "pi+ic"}) =>
    /\ DUTY_MIN <= dutyCycle /\ dutyCycle <= ClampMaxOfCombined
    /\ \A i \in PIWrites(log) : log[i].val = dutyCycle

\* C24: in the PI-only sketch, starting from a duty cycle within [10, 1014],
\* a tick that measures more than desiredLowVoltage hands a duty not greater
\* than the one before the tick, and a tick that measures less hands a duty
\* not smaller.
C24_PIStepMonotone ==
  [][(variant = "PI" /\ path' = "pi"
        /\ DUTY_MIN <= dutyCycle /\ dutyCycle <= DUTY_MAX_PI)
       => \A i \in PIWrites(log') :
            /\ actualLowVoltage' > desiredLowVoltage
                 => log'[i].val <= dutyCycle
            /\ actualLowVoltage' < desiredLowVoltage
                 => log'[i].val >= dutyCycle]_vars

ICVariants == {"IC", "PIIC", "H"}
ICPrevVoltage == IF variant = "H" THEN prevLowVoltage ELSE avgPrevLowVoltage
ICPrevCurrent == IF variant = "H" THEN prevLowCurrent ELSE avgPrevLowCurrent

\* C25: in the IC-only, PI+IC and AtverterH sketches a decision tick (window
\* close, slow block) computes dV and dI as this decision's low-side voltage
\* and current minus those the preceding decision stored (0 before the first
\* decision) and then stores this decision's values as the previous ones; a
\* tick that makes no decision leaves the previous values unchanged.
C25_DeltasAgainstPreviousDecision ==
  [][(variant \in ICVariants /\ path' # "none")
       => IF path' \in {"close", "slow"}
            THEN /\ dV' = ICVoltage' - ICPrevVoltage
                 /\ dI' = ICCurrent' - ICPrevCurrent
                 /\ ICPrevVoltage' = ICVoltage'
                 /\ ICPrevCurrent' = ICCurrent'
                 /\ nWindows = 0 => ICPrevVoltage = 0 /\ ICPrevCurrent = 0
            ELSE UNCHANGED <<ICPrevVoltage, ICPrevCurrent>>]_vars

\* A second decision whose voltage and current both differ from those of
\* the first.
C25_SecondDecisionMoved ==
  /\ variant \in ICVariants /\ path \in {"close", "slow"}
  /\ nWindows = 2 /\ dV # 0 /\ dI # 0 /\ dV # ICVoltage /\ dI # ICCurrent
  /\ ICPrevVoltage = ICVoltage /\ ICPrevCurrent = ICCurrent

ResetWrites(l) == {i \in DutyWrites(l) : l[i].txt = "reset"}

\* C26: in the AtverterH sketch the dutyCycle variable at the end of a tick
\* equals the duty value most recently handed to the actuator, and an IC
\* step that follows an out-of-band reset to 50 within the tick starts from
\* that reset value.
C26_StoredDutyTracksActuator ==
  (variant = "H" /\ path # "none") =>
    /\ dutyCycle = hwDuty
    /\ (path = "slow" /\ ResetWrites(log) # {}) => DutyBeforeIC = RESET_DUTY_H

\* C27: in the AtverterH sketch, counting the calls of controlUpdate that
\* find the gates not shut down, the slow block runs on exactly every N-th
\* call, N being the literal slowInterruptCounter is compared with (1000),
\* and slowInterruptCounter is within 0..N after every call.
C27_SlowBlockEveryNthCall ==
  variant = "H" =>
    /\ 0 <= slowInterruptCounter /\ slowInterruptCounter <= slowCalls
    /\ path = "slow" => closed.ticks = slowCalls

\* C28: in the IC-only sketch with N = 1000 every running sum holds the true
\* sum of the samples fed since the last close (none has left the range of
\* its integer type), and the current averages at a close are the truncated
\* quotients of the true sums.
C28_SumsHoldTrueSums ==
  variant = "IC" =>
    /\ path = "accumulate" =>
         /\ avgLowCurrentSum = window.il /\ avgHighCurrentSum = window.ih
         /\ avgLowVoltageSum = window.vl /\ avgHighVoltageSum = window.vh
    /\ path = "close" =>
         /\ avgLowCurrent = Quot(closed.il, numAverages + 1)
         /\ avgHighCurrent = Quot(closed.ih, numAverages + 1)

TookBranch1(l) == \E i \in Events(l, "dutyBeforeIC") : l[i].txt = "branch1"
DecisionWord(delta) ==
  IF delta > 0 THEN "inc" ELSE IF delta < 0 THEN "dec" ELSE "hold"

\* C29: the IC step of the legacy sketch takes the stationary-voltage branch
\* exactly when -VOLTAGE_ERROR_RANGE < dV < VOLTAGE_ERROR_RANGE, and inside
\* it decides as the dead-band rule of the current sketches does: increment
\* for dI > CURRENT_ERROR_RANGE, decrement for dI < -CURRENT_ERROR_RANGE,
\* hold otherwise.
C29_LegacyMatchesDeadBandRule ==
  (variant = "LEGACY" /\ path = "pi+ic") =>
    /\ TookBranch1(log) <=> InDeadBand(dV, VOLTAGE_ERROR_RANGE_OLD)
    /\ TookBranch1(log) =>
         ICDecision(log) =
           DecisionWord(StationaryDelta(dI, CURRENT_ERROR_RANGE_OLD))

====
